---- MODULE Spec2Model ----
(***************************************************************************)
(* Model of the compact cache database backend for NICOS:                  *)
(*   src/src/dicts.rs    string dictionaries (Dict, Dicts)                  *)
(*   src/src/dayfile.rs  record codec and day file (DayFile, enc, dec)      *)
(*   src/src/bin/convert.rs  the conversion run (main_inner, process_day)   *)
(*                                                                         *)
(* Bytes are the integers 0..255, byte strings are sequences of bytes.     *)
(* A u32 is the set of its set bit positions (a subset of 0..31), so that  *)
(* `|` is set union and bit 31 is representable.                           *)
(***************************************************************************)
EXTENDS Integers, Sequences, FiniteSets, TLC

VARIABLES
    dict,      \* SpecDict: one Dict (strs, indices, max_index)
    order,     \* SpecDict history: the distinct strings passed to index, in first-call order
    first,     \* SpecDict history: string -> result of its first index call
    last,      \* history: the last call made (operation, arguments, result, state before)
    dicts,     \* the Dicts a run owns: [keys, vals]
    file,      \* DayFile.file: the bytes written to the day file so far
    buf,       \* DayFile.buf: the scratch buffer shared by all encodes and decodes
    status,    \* "running", or "panicked" once an expect() has failed; SpecRun: the
               \* place in the run ("main", "day", "cat", "done", "failed", "panicked")
    arg,       \* SpecCodec, SpecWord: the inputs still to be processed; SpecRun: the
               \* name of the category file being read
    hdr,       \* SpecWord: the header words computed so far
    recs,      \* history: the add_entry calls that returned, in call order
    disk,      \* the saved dictionaries: the bytes of the keys and values files, or NoDisk
    saved,     \* history: the Dicts as it was when it was last saved
    curcat     \* SpecRun: process_day's local catindex, the index of the current category

vars == <<dict, order, first, last, dicts, file, buf, status, arg, hdr, recs, disk, saved,
          curcat>>

\* No dictionary files in the output directory
NoDisk == [exists |-> FALSE]

(***************************************************************************)
(* Option<u32>                                                             *)
(***************************************************************************)
Some(n) == [some |-> TRUE, v |-> n]

None == [some |-> FALSE, v |-> 0]

(***************************************************************************)
(* dicts.rs: struct Dict                                                   *)
(***************************************************************************)

\* #[derive(Default)] struct Dict: empty strs, empty indices, max_index 0
Dict_default == [strs |-> <<>>, indices |-> <<>>, max_index |-> 0]

\* HashMap::get
HashGet(indices, val) ==
    IF val \in DOMAIN indices THEN Some(indices[val]) ELSE None

\* HashMap::insert: a present key is overwritten
HashInsert(indices, val, n) == (val :> n) @@ indices

\* A plausible slip in Dict::index: `>` for `>=` in the bound check.
Dict_index_OffByOne(d, val) ==
    LET hit == HashGet(d.indices, val)
        new_index == Len(d.strs)
    IN  IF hit.some THEN [res |-> hit, dict |-> d]
        ELSE IF new_index > d.max_index THEN [res |-> None, dict |-> d]
        ELSE [res |-> Some(new_index),
              dict |-> [d EXCEPT !.indices = HashInsert(d.indices, val, new_index),
                                 !.strs = Append(d.strs, val)]]

\* A plausible slip in Dict::index: the new string is put in front of the array.
Dict_index_Prepend(d, val) ==
    LET hit == HashGet(d.indices, val)
        new_index == Len(d.strs)
    IN  IF hit.some THEN [res |-> hit, dict |-> d]
        ELSE IF new_index >= d.max_index THEN [res |-> None, dict |-> d]
        ELSE [res |-> Some(new_index),
              dict |-> [d EXCEPT !.indices = HashInsert(d.indices, val, new_index),
                                 !.strs = <<val>> \o d.strs]]

\* A plausible slip in Dict::index: the lookup of an existing string is missing.
Dict_index_NoLookup(d, val) ==
    LET new_index == Len(d.strs)
    IN  IF new_index >= d.max_index THEN [res |-> None, dict |-> d]
        ELSE [res |-> Some(new_index),
              dict |-> [d EXCEPT !.indices = HashInsert(d.indices, val, new_index),
                                 !.strs = Append(d.strs, val)]]

\* A plausible slip in Dict::index: self.indices.insert(..) is left out.
Dict_index_NoInsert(d, val) ==
    LET hit == HashGet(d.indices, val)
        new_index == Len(d.strs)
    IN  IF hit.some THEN [res |-> hit, dict |-> d]
        ELSE IF new_index >= d.max_index THEN [res |-> None, dict |-> d]
        ELSE [res |-> Some(new_index), dict |-> [d EXCEPT !.strs = Append(d.strs, val)]]

\* Dict::index(&mut self, val) -> Option<u32>: the result and the dictionary after.
\* (The usize -> u32 conversion of strs.len() fails only from 2^32 entries on.)
Dict_index(d, val) ==
    LET hit == HashGet(d.indices, val)
        new_index == Len(d.strs)
    IN  IF hit.some THEN [res |-> hit, dict |-> d]
        ELSE IF new_index >= d.max_index THEN [res |-> None, dict |-> d]
        ELSE [res |-> Some(new_index),
              dict |-> [d EXCEPT !.indices = HashInsert(d.indices, val, new_index),
                                 !.strs = Append(d.strs, val)]]

\* Dict::value(&self, index) -> &[u8]: strs[index], zero-based
Dict_value(d, index) == d.strs[index + 1]

(***************************************************************************)
(* dicts.rs: struct Dicts                                                  *)
(***************************************************************************)

\* u16::MAX
U16_MAX == 65535

\* (1 << 30) - 1
VALS_MAX_INDEX == 2^30 - 1

\* A plausible slip in Dicts::default: the call vals.index(b"-") is left out.
Dicts_default_NoSeed ==
    [keys |-> [Dict_default EXCEPT !.max_index = U16_MAX],
     vals |-> [Dict_default EXCEPT !.max_index = VALS_MAX_INDEX]]

\* A plausible slip in Dicts::default(): the key bound is the number of u16 values.
Dicts_default_AllU16 ==
    LET keys == [Dict_default EXCEPT !.max_index = U16_MAX + 1]
        vals == [Dict_default EXCEPT !.max_index = VALS_MAX_INDEX]
    IN  [keys |-> keys, vals |-> Dict_index(vals, <<45>>).dict]

\* Dicts::default(): the key dictionary empty, the value dictionary seeded with "-"
Dicts_default ==
    LET keys == [Dict_default EXCEPT !.max_index = U16_MAX]
        vals == [Dict_default EXCEPT !.max_index = VALS_MAX_INDEX]
    IN  [keys |-> keys, vals |-> Dict_index(vals, <<45>>).dict]

\* Dicts::key_index: keys.index(key).expect("key overflow") as u16
Dicts_key_index(ds, key) ==
    LET r == Dict_index(ds.keys, key)
    IN  [panic |-> ~r.res.some,
         res |-> r.res.v % (U16_MAX + 1),
         dicts |-> [ds EXCEPT !.keys = r.dict]]

\* A plausible slip in Dicts::value_index: unwrap_or(0) where the code has
\* expect("value overflow").
Dicts_value_index_OrZero(ds, val) ==
    LET r == Dict_index(ds.vals, val)
    IN  [panic |-> FALSE,
         res |-> IF r.res.some THEN r.res.v ELSE 0,
         dicts |-> [ds EXCEPT !.vals = r.dict]]

\* Dicts::value_index: vals.index(val).expect("value overflow")
Dicts_value_index(ds, val) ==
    LET r == Dict_index(ds.vals, val)
    IN  [panic |-> ~r.res.some,
         res |-> r.res.v,
         dicts |-> [ds EXCEPT !.vals = r.dict]]

\* Dicts::key
Dicts_key(ds, index) == Dict_value(ds.keys, index)

\* Dicts::value
Dicts_value(ds, index) == Dict_value(ds.vals, index)

(***************************************************************************)
(* dicts.rs: load and save                                                 *)
(***************************************************************************)

\* The capacity of a BufWriter made by BufWriter::new
BUF_CAPACITY == 8192

\* BufWriter::write(data) on a stream that holds `stream`: data shorter than
\* the capacity is taken whole; longer data goes to File::write in one call,
\* which writes the first n bytes (1 <= n <= len) and returns n. The callers
\* here drop the count.
BufWriter_write(stream, data, n) ==
    IF Len(data) < BUF_CAPACITY THEN stream \o data
    ELSE stream \o SubSeq(data, 1, n)

\* The loop of Dict::save: each string, then "\n"
RECURSIVE save_strs(_, _)
save_strs(strs, out) ==
    IF strs = <<>> THEN out
    ELSE save_strs(Tail(strs),
                   BufWriter_write(BufWriter_write(out, Head(strs), Len(Head(strs))),
                                   <<10>>, 1))

\* A plausible slip in Dict::save: the strings are written without a terminator
\* between them.
RECURSIVE save_strs_NoTerminator(_, _)
save_strs_NoTerminator(strs, out) ==
    IF strs = <<>> THEN out
    ELSE save_strs_NoTerminator(Tail(strs), out \o Head(strs))

Dict_save_NoTerminator(d) == save_strs_NoTerminator(d.strs, <<>>)

\* Dict::save: the bytes of the file created (strings shorter than the
\* writer's capacity, so every write is taken whole)
Dict_save(d) == save_strs(d.strs, <<>>)

\* BufRead::split(b'\n'): the segments the delimiter ends, and a last segment
\* without delimiter when it is not empty
RECURSIVE split_lines(_, _, _)
split_lines(bytes, line, lines) ==
    IF bytes = <<>> THEN (IF line = <<>> THEN lines ELSE Append(lines, line))
    ELSE IF Head(bytes) = 10 THEN split_lines(Tail(bytes), <<>>, Append(lines, line))
    ELSE split_lines(Tail(bytes), Append(line, Head(bytes)), lines)

\* The loop of Dict::load: indices.insert(line, strs.len()); strs.push(line)
RECURSIVE load_lines(_, _)
load_lines(lines, d) ==
    IF lines = <<>> THEN d
    ELSE load_lines(Tail(lines),
                    [d EXCEPT !.indices = HashInsert(d.indices, Head(lines), Len(d.strs)),
                              !.strs = Append(d.strs, Head(lines))])

\* Dict::load: the dictionary read from the bytes of a file, max_index 0
Dict_load(bytes) ==
    load_lines(split_lines(bytes, <<>>, <<>>),
               [strs |-> <<>>, indices |-> <<>>, max_index |-> 0])

\* Dicts::load: both dictionaries, then the two bounds
Dicts_load(d) ==
    [keys |-> [Dict_load(d.keys) EXCEPT !.max_index = U16_MAX],
     vals |-> [Dict_load(d.values) EXCEPT !.max_index = VALS_MAX_INDEX]]

\* Dicts::save: the files "keys" and "values"
Dicts_save(ds) == [exists |-> TRUE, keys |-> Dict_save(ds.keys), values |-> Dict_save(ds.vals)]

(***************************************************************************)
(* Machine words                                                           *)
(***************************************************************************)

Bit(n, k) == (n \div 2^k) % 2 = 1

\* `n as u32` for 0 <= n < 2^31, as the set of its set bits
U32(n) == {k \in 0..30 : Bit(n, k)}

\* a | b on u32
BitOr(a, b) == a \cup b

\* Byte j (0 = least significant) of a u32
ByteOfWord(w, j) ==
      (IF 8 * j \in w THEN 1 ELSE 0) + (IF 8 * j + 1 \in w THEN 2 ELSE 0)
    + (IF 8 * j + 2 \in w THEN 4 ELSE 0) + (IF 8 * j + 3 \in w THEN 8 ELSE 0)
    + (IF 8 * j + 4 \in w THEN 16 ELSE 0) + (IF 8 * j + 5 \in w THEN 32 ELSE 0)
    + (IF 8 * j + 6 \in w THEN 64 ELSE 0) + (IF 8 * j + 7 \in w THEN 128 ELSE 0)

\* LE::write_u32: least significant byte first
LE_write_u32(w) == [j \in 1..4 |-> ByteOfWord(w, j - 1)]

\* LE::write_u16
LE_write_u16(n) == <<n % 256, n \div 256>>

\* LE::write_f64. An f64 is its IEEE-754 bit pattern, given as four 16-bit
\* limbs with the most significant (sign and exponent) first.
LE_write_f64(t) ==
    LE_write_u16(t[4]) \o LE_write_u16(t[3]) \o LE_write_u16(t[2]) \o LE_write_u16(t[1])

\* x | y on u8
BitOr8(x, y) ==
    LET bit(k) == IF Bit(x, k) \/ Bit(y, k) THEN 2^k ELSE 0
    IN  bit(0) + bit(1) + bit(2) + bit(3) + bit(4) + bit(5) + bit(6) + bit(7)

\* x << 4 on u8
Shl4(x) == (x * 16) % 256

\* x >> 4 on u8
Shr4(x) == x \div 16

\* x & 0xF on u8
Low4(x) == x % 16

(***************************************************************************)
(* dayfile.rs: the nibble codec                                            *)
(***************************************************************************)

FLAG_EXPIRING == {31}

FLAG_ENCODED == {30}

FLAG_INDEXED == {29}

\* enc_map: the position of a byte in "0123456789.,-[]e"
enc_map(b) ==
    CASE b = 48 -> Some(0)
      [] b = 49 -> Some(1)
      [] b = 50 -> Some(2)
      [] b = 51 -> Some(3)
      [] b = 52 -> Some(4)
      [] b = 53 -> Some(5)
      [] b = 54 -> Some(6)
      [] b = 55 -> Some(7)
      [] b = 56 -> Some(8)
      [] b = 57 -> Some(9)
      [] b = 46 -> Some(10)
      [] b = 44 -> Some(11)
      [] b = 45 -> Some(12)
      [] b = 91 -> Some(13)
      [] b = 93 -> Some(14)
      [] b = 101 -> Some(15)
      [] OTHER -> None

\* The loop of enc over value.chunks(2): a byte outside the alphabet returns
\* None at once and leaves in buf what the chunks before it pushed.
RECURSIVE enc_chunks(_, _)
enc_chunks(value, b) ==
    IF value = <<>> THEN [some |-> TRUE, buf |-> b]
    ELSE LET lo == enc_map(value[1])
         IN  IF ~lo.some THEN [some |-> FALSE, buf |-> b]
             ELSE IF Len(value) = 1 THEN [some |-> TRUE, buf |-> Append(b, lo.v)]
             ELSE LET hi == enc_map(value[2])
                  IN  IF ~hi.some THEN [some |-> FALSE, buf |-> b]
                      ELSE enc_chunks(SubSeq(value, 3, Len(value)),
                                      Append(b, BitOr8(lo.v, Shl4(hi.v))))

\* A plausible slip in enc: an empty value is not packed (None).
enc_EmptyIsNone(value, b) ==
    IF value = <<>> THEN [some |-> FALSE, buf |-> <<>>] ELSE enc_chunks(value, <<>>)

\* A plausible slip in enc: the second byte of a chunk goes to the low nibble.
RECURSIVE enc_chunks_Swapped(_, _)
enc_chunks_Swapped(value, b) ==
    IF value = <<>> THEN [some |-> TRUE, buf |-> b]
    ELSE LET lo == enc_map(value[1])
         IN  IF ~lo.some THEN [some |-> FALSE, buf |-> b]
             ELSE IF Len(value) = 1 THEN [some |-> TRUE, buf |-> Append(b, lo.v)]
             ELSE LET hi == enc_map(value[2])
                  IN  IF ~hi.some THEN [some |-> FALSE, buf |-> b]
                      ELSE enc_chunks_Swapped(SubSeq(value, 3, Len(value)),
                                              Append(b, BitOr8(hi.v, Shl4(lo.v))))

enc_Swapped(value, b) == enc_chunks_Swapped(value, <<>>)

\* A plausible slip in enc: buf.clear() is missing.
enc_NoClear(value, b) == enc_chunks(value, b)

\* enc(value, buf) -> Option<&[u8]>: buf.clear(), then the loop; Some(buf) is
\* the buffer itself. b is the buffer before the call.
enc(value, b) == enc_chunks(value, <<>>)

\* dec_map: b"0123456789.,-[]e"[b]
dec_map(b) == <<48, 49, 50, 51, 52, 53, 54, 55, 56, 57, 46, 44, 45, 91, 93, 101>>[b + 1]

RECURSIVE dec_bytes(_, _)
dec_bytes(value, b) ==
    IF value = <<>> THEN b
    ELSE dec_bytes(Tail(value),
                   Append(Append(b, dec_map(Low4(Head(value)))), dec_map(Shr4(Head(value)))))

\* Vec::truncate
Truncate(s, len) == IF len < Len(s) THEN SubSeq(s, 1, len) ELSE s

\* dec(value, len, buf) -> &[u8]: buf.clear(), two symbols a byte, truncate(len).
\* b is the buffer before the call; the result is the buffer after it.
dec(value, len, b) == Truncate(dec_bytes(value, <<>>), len)

(***************************************************************************)
(* dayfile.rs: struct DayFile                                              *)
(***************************************************************************)

\* DayFile::create: an empty file and an empty scratch buffer
DayFile_create == [file |-> <<>>, buf |-> <<>>]

\* <[u8]>::starts_with
starts_with(value, prefix) ==
    /\ Len(value) >= Len(prefix)
    /\ SubSeq(value, 1, Len(prefix)) = prefix

\* A plausible slip in the dictionary test: the "(" prefix is forgotten.
UsesDictionary_NoParen(value) ==
    \/ starts_with(value, <<39>>)
    \/ value = <<45>>

\* The test of add_entry's first branch: the value starts with ' or ( or is "-"
UsesDictionary(value) ==
    \/ starts_with(value, <<39>>)
    \/ starts_with(value, <<40>>)
    \/ value = <<45>>

\* A plausible slip in add_entry: firstfield = FLAG_EXPIRING where the code has
\* firstfield |= FLAG_EXPIRING.
FirstField_ExpiringAssigned(mode, length, index, expiring) ==
    IF expiring THEN FLAG_EXPIRING
    ELSE CASE mode = "indexed" -> BitOr(U32(index), FLAG_INDEXED)
           [] mode = "encoded" -> BitOr(U32(length), FLAG_ENCODED)
           [] OTHER -> U32(length)

\* The header word add_entry builds in the branch it took: the index or the
\* length, the flag of the branch, and FLAG_EXPIRING when expiring.
FirstField(mode, length, index, expiring) ==
    LET firstfield ==
            CASE mode = "indexed" -> BitOr(U32(index), FLAG_INDEXED)
              [] mode = "encoded" -> BitOr(U32(length), FLAG_ENCODED)
              [] OTHER -> U32(length)
    IN  IF expiring THEN BitOr(firstfield, FLAG_EXPIRING) ELSE firstfield

\* DayFile::add_entry. df is [file, buf], ds the Dicts; the result holds both
\* after the call, or panic when value_index failed ("value overflow"), in which
\* case nothing was written. The two self.file.write calls drop the count
\* written: BufWriter::write takes the header and a payload shorter than its
\* capacity whole, and hands a longer payload to File::write, which leaves
\* `short` bytes of it unwritten (0 <= short < len) and still returns Ok.
DayFile_add_entry(df, catindex, subkeyindex, value, timestamp, expiring, ds, short) ==
    LET length == Len(value)
        indexed == UsesDictionary(value)
        vi == Dicts_value_index(ds, value)
        e == enc(value, df.buf)
        mode == IF indexed THEN "indexed" ELSE IF e.some THEN "encoded" ELSE "literal"
        wvalue == CASE mode = "indexed" -> <<>>
                    [] mode = "encoded" -> e.buf
                    [] OTHER -> value
        firstfield == FirstField(mode, length, IF indexed THEN vi.res ELSE 0, expiring)
        msg == LE_write_u32(firstfield) \o LE_write_u16(catindex)
                 \o LE_write_u16(subkeyindex) \o LE_write_f64(timestamp)
    IN  IF indexed /\ vi.panic
        THEN [panic |-> TRUE, dicts |-> ds, file |-> df.file, buf |-> df.buf,
              mode |-> mode, firstfield |-> {}, msg |-> <<>>, wvalue |-> <<>>]
        ELSE [panic |-> FALSE,
              dicts |-> IF indexed THEN vi.dicts ELSE ds,
              file |-> BufWriter_write(BufWriter_write(df.file, msg, Len(msg)),
                                       wvalue, Len(wvalue) - short),
              buf |-> IF indexed THEN df.buf ELSE e.buf,
              mode |-> mode, firstfield |-> firstfield, msg |-> msg, wvalue |-> wvalue]

(***************************************************************************)
(* SpecDict: one dictionary with max_index = N, starting empty, under any  *)
(* sequence of index calls.                                                *)
(***************************************************************************)

\* The largest max_index tried.
MaxIndex == 3

\* The byte strings passed to index: "", "-", "'", "12", "(", "f"
DictStrings == {<<>>, <<45>>, <<39>>, <<49, 50>>, <<40>>, <<102>>}

NoCall == [op |-> "none"]

InitDict ==
    /\ \E n \in 0..MaxIndex : dict = [Dict_default EXCEPT !.max_index = n]
    /\ order = <<>>
    /\ first = <<>>
    /\ last = NoCall
    /\ dicts = Dicts_default
    /\ file = <<>>
    /\ buf = <<>>
    /\ status = "running"
    /\ arg = <<>>
    /\ hdr = <<>>
    /\ disk = NoDisk
    /\ saved = NoDisk
    /\ curcat = 0
    /\ recs = <<>>

\* One call dict.index(val)
Index(val) ==
    \E r \in {Dict_index(dict, val)} :
        /\ dict' = r.dict
        /\ order' = IF val \in DOMAIN first THEN order ELSE Append(order, val)
        /\ first' = IF val \in DOMAIN first THEN first
                    ELSE [s \in (DOMAIN first) \cup {val} |->
                            IF s = val THEN r.res ELSE first[s]]
        /\ last' = [op |-> "index", val |-> val, res |-> r.res, before |-> dict]
        /\ UNCHANGED <<dicts, file, buf, status, arg, hdr, recs, disk, saved, curcat>>

NextDict == \E val \in DictStrings : Index(val)

SpecDict == InitDict /\ [][NextDict]_vars

(***************************************************************************)
(* Spec: one day file and the dictionaries of a run, under any sequence of *)
(* add_entry calls.                                                        *)
(***************************************************************************)

\* The number of records written to the day file.
MaxRecords == 2

\* The values written: "", "-", "'", "(", "'f", "(1", "-1", "--", "1", "12.5",
\* "foo", "f1", "1'", "12f", "[1,2]", "'-", "-'", "0123456789.,-[]e"
Values ==
    {<<>>, <<45>>, <<39>>, <<40>>, <<39, 102>>, <<40, 49>>, <<45, 49>>, <<45, 45>>,
     <<49>>, <<49, 50, 46, 53>>, <<102, 111, 111>>, <<102, 49>>,
     <<49, 39>>, <<49, 50, 102>>, <<91, 49, 44, 50, 93>>,
     <<39, 45>>, <<45, 39>>,
     <<48, 49, 50, 51, 52, 53, 54, 55, 56, 57, 46, 44, 45, 91, 93, 101>>}

\* The (category index, subkey index, timestamp) triples written; the
\* timestamps are 0.0 and 1500000000.0
Entries ==
    {[cat |-> 0, sub |-> 1, ts |-> <<0, 0, 0, 0>>],
     [cat |-> 65535, sub |-> 258, ts |-> <<16854, 23051, 49152, 0>>]}

Init ==
    /\ dicts = Dicts_default
    /\ file = DayFile_create.file
    /\ buf = DayFile_create.buf
    /\ status = "running"
    /\ recs = <<>>
    /\ last = NoCall
    /\ dict = Dict_default
    /\ order = <<>>
    /\ first = <<>>
    /\ arg = <<>>
    /\ hdr = <<>>
    /\ disk = NoDisk
    /\ saved = NoDisk
    /\ curcat = 0

\* One call dayfile.add_entry(e.cat, e.sub, value, e.ts, expiring, &mut dicts),
\* in which File::write leaves `short` bytes of a long payload unwritten
AddEntry(e, value, expiring, short) ==
    /\ status = "running"
    /\ Len(recs) < MaxRecords
    /\ \E r \in {DayFile_add_entry([file |-> file, buf |-> buf], e.cat, e.sub, value,
                                   e.ts, expiring, dicts, short)} :
       \E call \in {[op |-> "add_entry", value |-> value, entry |-> e,
                     expiring |-> expiring, panic |-> r.panic, mode |-> r.mode,
                     firstfield |-> r.firstfield, msg |-> r.msg, wvalue |-> r.wvalue,
                     before |-> [dicts |-> dicts, file |-> file, buf |-> buf]]} :
          /\ dicts' = r.dicts
          /\ file' = r.file
          /\ buf' = r.buf
          /\ status' = IF r.panic THEN "panicked" ELSE "running"
          /\ recs' = IF r.panic THEN recs ELSE Append(recs, call)
          /\ last' = call
          /\ UNCHANGED <<dict, order, first, arg, hdr, disk, saved, curcat>>

\* No value of Values reaches the writer's capacity: every write is whole
Next ==
    \E e \in Entries, value \in Values, expiring \in BOOLEAN : AddEntry(e, value, expiring, 0)

Spec == Init /\ [][Next]_vars

(***************************************************************************)
(* SpecFull: a day file written while the value dictionary runs full. The  *)
(* bound (1 << 30) - 1 of Dicts::default is out of reach of an explicit    *)
(* dictionary, so the value dictionary gets a small max_index here;        *)
(* Dict::index and add_entry only ever compare strs.len() with it.         *)
(***************************************************************************)

\* The largest max_index the value dictionary is given.
FullAt == 2

InitFull ==
    /\ \E n \in 1..FullAt : dicts = [Dicts_default EXCEPT !.vals.max_index = n]
    /\ file = DayFile_create.file
    /\ buf = DayFile_create.buf
    /\ status = "running"
    /\ recs = <<>>
    /\ last = NoCall
    /\ dict = Dict_default
    /\ order = <<>>
    /\ first = <<>>
    /\ arg = <<>>
    /\ hdr = <<>>
    /\ disk = NoDisk
    /\ saved = NoDisk
    /\ curcat = 0

\* The values written: "-", "'f", "(1", "'-", "12.5", "foo"
FullValues ==
    {<<45>>, <<39, 102>>, <<40, 49>>, <<39, 45>>, <<49, 50, 46, 53>>, <<102, 111, 111>>}

NextFull ==
    \E value \in FullValues, expiring \in BOOLEAN :
        AddEntry([cat |-> 0, sub |-> 1, ts |-> <<0, 0, 0, 0>>], value, expiring, 0)

SpecFull == InitFull /\ [][NextFull]_vars

(***************************************************************************)
(* SpecBig: a day file that also receives a literal value as long as the   *)
(* writer's buffer, whose payload BufWriter::write hands to File::write.   *)
(***************************************************************************)

\* The values written: "f", "1" and BUF_CAPACITY times "f"
BigValues == {<<102>>, <<49>>, [i \in 1..BUF_CAPACITY |-> 102]}

\* The counts File::write may leave unwritten of a payload of len bytes handed
\* to it: none, the last byte, all but the first byte
ShortCounts(value) ==
    IF Len(value) < BUF_CAPACITY THEN {0} ELSE {0, 1, Len(value) - 1}

NextBig ==
    \E value \in BigValues, expiring \in BOOLEAN :
        \E short \in ShortCounts(value) :
            AddEntry([cat |-> 0, sub |-> 1, ts |-> <<0, 0, 0, 0>>], value, expiring, short)

SpecBig == Init /\ [][NextBig]_vars

(***************************************************************************)
(* SpecCodec: enc and dec on the shared scratch buffer. The buffer starts  *)
(* as an earlier call left it.                                             *)
(***************************************************************************)

\* The longest value packed.
MaxCodecLen == 4

\* The 16 symbols of the alphabet and one byte outside it ("f")
CodecBytes == (48..57) \cup {46, 44, 45, 91, 93, 101, 102}

RECURSIVE SeqsUpTo(_, _)
SeqsUpTo(S, n) ==
    IF n = 0 THEN {<<>>}
    ELSE LET shorter == SeqsUpTo(S, n - 1)
         IN  shorter \cup {Append(s, b) : s \in {t \in shorter : Len(t) = n - 1}, b \in S}

\* "0", "9", ".", "e" and "f"
FewBytes == {48, 57, 46, 101, 102}

\* Every value of up to two bytes, and the longer ones over a few bytes
CodecValues == SeqsUpTo(CodecBytes, 2) \cup SeqsUpTo(FewBytes, MaxCodecLen)

\* The scratch buffer as DayFile::create, a successful enc("121"), a failed
\* enc("12f") and a dec of "123" leave it.
LeftoverBufs ==
    {DayFile_create.buf,
     enc(<<49, 50, 49>>, <<>>).buf,
     enc(<<49, 50, 102>>, <<>>).buf,
     dec(<<33, 3>>, 3, <<>>)}

InitCodec ==
    /\ buf \in LeftoverBufs
    /\ last = NoCall
    /\ arg = <<>>
    /\ dicts = Dicts_default
    /\ file = <<>>
    /\ status = "running"
    /\ recs = <<>>
    /\ dict = Dict_default
    /\ order = <<>>
    /\ first = <<>>
    /\ hdr = <<>>
    /\ disk = NoDisk
    /\ saved = NoDisk
    /\ curcat = 0

\* enc(value, &mut buf); the packed bytes are copied out (to the file)
CodecEnc(value) ==
    /\ last.op = "none"
    /\ \E r \in {enc(value, buf)} :
          /\ buf' = r.buf
          /\ last' = [op |-> "enc", value |-> value, some |-> r.some,
                      out |-> IF r.some THEN r.buf ELSE <<>>, buf0 |-> buf]
    /\ UNCHANGED <<dict, order, first, dicts, file, status, arg, hdr, recs, disk, saved, curcat>>

\* dec(packed, len, &mut buf) of what the last enc returned
CodecDec ==
    /\ last.op = "enc"
    /\ last.some
    /\ buf' = dec(last.out, Len(last.value), buf)
    /\ last' = [op |-> "dec", value |-> last.value, some |-> TRUE,
                out |-> buf', buf0 |-> last.buf0]
    /\ UNCHANGED <<dict, order, first, dicts, file, status, arg, hdr, recs, disk, saved, curcat>>

NextCodec == (\E value \in CodecValues : CodecEnc(value)) \/ CodecDec

SpecCodec == InitCodec /\ [][NextCodec]_vars

(***************************************************************************)
(* SpecKeys: Dicts::key_index on a key dictionary that is nearly full.     *)
(***************************************************************************)

\* The free indices the key dictionary starts with.
Room == 3

\* The i-th key of a run, a two-byte string
KeyOf(i) == <<i % 256, i \div 256>>

\* The dictionary d after index() on KeyOf(0), ..., KeyOf(n-1) in this order,
\* for n <= d.max_index: each call takes the branch that pushes.
Filled(d, n) ==
    [d EXCEPT !.strs = [i \in 1..n |-> KeyOf(i - 1)],
              !.indices = [s \in {KeyOf(i) : i \in 0..(n - 1)} |-> s[1] + 256 * s[2]]]

\* The keys already held when the model starts
PreKeys == Dicts_default.keys.max_index - Room

\* The keys resolved: one that is held at the start, and Room + 1 that are not
KeySamples == {KeyOf(0)} \cup {KeyOf(i) : i \in PreKeys..(PreKeys + Room)}

InitKeys ==
    /\ dicts = [Dicts_default EXCEPT !.keys = Filled(Dicts_default.keys, PreKeys)]
    /\ status = "running"
    /\ last = NoCall
    /\ file = <<>>
    /\ buf = <<>>
    /\ recs = <<>>
    /\ dict = Dict_default
    /\ order = <<>>
    /\ first = <<>>
    /\ arg = <<>>
    /\ hdr = <<>>
    /\ disk = NoDisk
    /\ saved = NoDisk
    /\ curcat = 0

\* One call dicts.key_index(key); a failed expect() ends the run
KeyIndex(key) ==
    /\ status = "running"
    /\ \E r \in {Dicts_key_index(dicts, key)} :
          /\ dicts' = r.dicts
          /\ status' = IF r.panic THEN "panicked" ELSE "running"
          /\ last' = [op |-> "key_index", key |-> key, panic |-> r.panic, res |-> r.res,
                      held |-> key \in DOMAIN dicts.keys.indices,
                      count |-> Len(dicts.keys.strs)]
    /\ UNCHANGED <<dict, order, first, file, buf, arg, hdr, recs, disk, saved, curcat>>

NextKeys == \E key \in KeySamples : KeyIndex(key)

SpecKeys == InitKeys /\ [][NextKeys]_vars

(***************************************************************************)
(* SpecPersist: the dictionaries of a run under key_index, value_index,    *)
(* save and load.                                                          *)
(***************************************************************************)

\* The most entries the two dictionaries hold together when they are saved.
MaxSaved == 5

\* The keys resolved: "a" and "a\nb"
PersistKeys == {<<97>>, <<97, 10, 98>>}

\* The values resolved: "-", "'x" and "(\n"
PersistValues == {<<45>>, <<39, 120>>, <<40, 10>>}

InitPersist ==
    /\ dicts = Dicts_default
    /\ disk = NoDisk
    /\ saved = NoDisk
    /\ status = "running"
    /\ last = NoCall
    /\ file = <<>>
    /\ buf = <<>>
    /\ recs = <<>>
    /\ dict = Dict_default
    /\ order = <<>>
    /\ first = <<>>
    /\ arg = <<>>
    /\ hdr = <<>>
    /\ curcat = 0

\* One call dicts.value_index(val); a failed expect() ends the run
ValueIndex(val) ==
    /\ status = "running"
    /\ \E r \in {Dicts_value_index(dicts, val)} :
          /\ dicts' = r.dicts
          /\ status' = IF r.panic THEN "panicked" ELSE "running"
          /\ last' = [op |-> "value_index", key |-> val, panic |-> r.panic, res |-> r.res,
                      held |-> val \in DOMAIN dicts.vals.indices,
                      count |-> Len(dicts.vals.strs)]
    /\ UNCHANGED <<dict, order, first, file, buf, arg, hdr, recs, disk, saved, curcat>>

\* One call dicts.save(path)
Save ==
    /\ status = "running"
    /\ Len(dicts.keys.strs) + Len(dicts.vals.strs) <= MaxSaved
    /\ disk' = Dicts_save(dicts)
    /\ saved' = dicts
    /\ last' = [op |-> "save"]
    /\ UNCHANGED <<dict, order, first, dicts, file, buf, status, arg, hdr, recs, curcat>>

\* dicts = Dicts::load(path) on the files the last save wrote
Load ==
    /\ status = "running"
    /\ disk.exists
    /\ dicts' = Dicts_load(disk)
    /\ last' = [op |-> "load"]
    /\ UNCHANGED <<dict, order, first, file, buf, status, arg, hdr, recs, disk, saved, curcat>>

NextPersist ==
    \/ \E key \in PersistKeys : KeyIndex(key)
    \/ \E val \in PersistValues : ValueIndex(val)
    \/ Save
    \/ Load

SpecPersist == InitPersist /\ [][NextPersist]_vars

\* SpecFresh: a Dicts made by Dicts::default and never replaced by a loaded one
NextFresh ==
    \/ \E key \in PersistKeys : KeyIndex(key)
    \/ \E val \in PersistValues : ValueIndex(val)
    \/ Save

SpecFresh == InitPersist /\ [][NextFresh]_vars

(***************************************************************************)
(* SpecLoaded: key_index on a Dicts that Dicts::load read from a directory *)
(* whose keys file has about 65536 lines. Dict::load pushes every line     *)
(* and checks no bound.                                                    *)
(***************************************************************************)

\* How many lines more than 65535 the longest keys file loaded has.
OverLines == 2

\* Line i of the keys file: i in five decimal digits
LineOf(i) ==
    <<48 + ((i \div 10000) % 10), 48 + ((i \div 1000) % 10), 48 + ((i \div 100) % 10),
      48 + ((i \div 10) % 10), 48 + (i % 10)>>

\* The number a line of five digits spells
LineNo(s) ==
    (s[1] - 48) * 10000 + (s[2] - 48) * 1000 + (s[3] - 48) * 100 + (s[4] - 48) * 10 + (s[5] - 48)

\* What Dict::load returns for the file of the n lines LineOf(0) .. LineOf(n-1):
\* line i pushed at position i and inserted with index i
LoadedLines(n) ==
    [strs |-> [i \in 1..n |-> LineOf(i - 1)],
     indices |-> [s \in {LineOf(i) : i \in 0..(n - 1)} |-> LineNo(s)],
     max_index |-> 0]

\* The keys passed to key_index: the first line, the lines around number 65536
\* and strings that are in no file
LoadedSamples == {LineOf(i) : i \in {0} \cup ((U16_MAX - 8)..(U16_MAX + OverLines + 8))}

InitLoaded ==
    /\ \E n \in (U16_MAX - 1)..(U16_MAX + OverLines) :
          dicts = [keys |-> [LoadedLines(n) EXCEPT !.max_index = U16_MAX],
                   vals |-> [Dict_load(<<45, 10>>) EXCEPT !.max_index = VALS_MAX_INDEX]]
    /\ status = "running"
    /\ last = NoCall
    /\ disk = NoDisk
    /\ saved = NoDisk
    /\ file = <<>>
    /\ buf = <<>>
    /\ recs = <<>>
    /\ dict = Dict_default
    /\ order = <<>>
    /\ first = <<>>
    /\ arg = <<>>
    /\ hdr = <<>>
    /\ curcat = 0

NextLoaded == \E key \in LoadedSamples : KeyIndex(key)

SpecLoaded == InitLoaded /\ [][NextLoaded]_vars

(***************************************************************************)
(* SpecRun: one run of convert: main_inner makes a fresh Dicts, calls      *)
(* process_day for every day directory and saves the Dicts at the end.     *)
(* status is the place in the run: "main" between days, "day" inside       *)
(* process_day between category files, "cat" reading the lines of one      *)
(* category file; "done" after the save, "failed" after an I/O error,      *)
(* "panicked" after a failed expect(). arg is the name of the category     *)
(* file being read and curcat its index. recs keeps the records of all day *)
(* files of the run.                                                       *)
(*                                                                         *)
(* process_day passes (catindex, subkeyindex, valueindex, timestamp,       *)
(* expiring) to add_entry, which in dayfile.rs takes the value bytes and    *)
(* the Dicts; the record is the one dayfile.rs's add_entry writes for the  *)
(* value of the line.                                                      *)
(***************************************************************************)

\* The most lines the run reads from all category files together.
MaxLines == 2

\* The names of the category files: "a" and "a\nb"
RunCategories == {<<97>>, <<97, 10, 98>>}

\* The lines read_storefile passes on, as [subkey, timestamp, expiring, value]:
\* subkeys "v" and "s"; values "12.5", "foo", "'f"; the timestamp is 1500000000.0
RunLines ==
    {[subkey |-> <<118>>, ts |-> <<16854, 23051, 49152, 0>>, expiring |-> FALSE,
      value |-> <<49, 50, 46, 53>>],
     [subkey |-> <<118>>, ts |-> <<16854, 23051, 49152, 0>>, expiring |-> TRUE,
      value |-> <<102, 111, 111>>],
     [subkey |-> <<115>>, ts |-> <<16854, 23051, 49152, 0>>, expiring |-> FALSE,
      value |-> <<39, 102>>],
     [subkey |-> <<115>>, ts |-> <<16854, 23051, 49152, 0>>, expiring |-> TRUE,
      value |-> <<49, 50, 46, 53>>]}

InitRun ==
    /\ dicts = Dicts_default
    /\ status = "main"
    /\ disk = NoDisk
    /\ saved = NoDisk
    /\ file = <<>>
    /\ buf = <<>>
    /\ recs = <<>>
    /\ last = NoCall
    /\ arg = <<>>
    /\ curcat = 0
    /\ dict = Dict_default
    /\ order = <<>>
    /\ first = <<>>
    /\ hdr = <<>>

\* process_day is entered: DayFile::create
BeginDay ==
    /\ status = "main"
    /\ file' = DayFile_create.file
    /\ buf' = DayFile_create.buf
    /\ status' = "day"
    /\ last' = [op |-> "create"]
    /\ UNCHANGED <<dict, order, first, dicts, arg, hdr, recs, disk, saved, curcat>>

\* The next category file: catindex = dicts.key_index(cat)
BeginCategory(cat) ==
    /\ status = "day"
    /\ \E r \in {Dicts_key_index(dicts, cat)} :
          /\ dicts' = r.dicts
          /\ curcat' = r.res
          /\ status' = IF r.panic THEN "panicked" ELSE "cat"
    /\ arg' = cat
    /\ last' = [op |-> "category", key |-> cat]
    /\ UNCHANGED <<dict, order, first, file, buf, hdr, recs, disk, saved>>

\* The closure process_day gives read_storefile, run for one line: key_index
\* of the subkey, value_index of the value, whatever the value is, then
\* add_entry
Line(l) ==
    /\ status = "cat"
    /\ Len(recs) < MaxLines
    /\ \E k \in {Dicts_key_index(dicts, l.subkey)} :
       \E v \in {Dicts_value_index(k.dicts, l.value)} :
       \E r \in {DayFile_add_entry([file |-> file, buf |-> buf], curcat, k.res, l.value,
                                   l.ts, l.expiring, v.dicts, 0)} :
       \E call \in {[op |-> "add_entry", value |-> l.value,
                     entry |-> [cat |-> curcat, sub |-> k.res, ts |-> l.ts],
                     catname |-> arg, subkey |-> l.subkey,
                     expiring |-> l.expiring, panic |-> k.panic \/ v.panic \/ r.panic,
                     mode |-> r.mode, firstfield |-> r.firstfield, msg |-> r.msg,
                     wvalue |-> r.wvalue,
                     before |-> [dicts |-> dicts, file |-> file, buf |-> buf]]} :
          /\ dicts' = IF k.panic THEN dicts ELSE IF v.panic THEN k.dicts ELSE r.dicts
          /\ file' = IF call.panic THEN file ELSE r.file
          /\ buf' = IF call.panic THEN buf ELSE r.buf
          /\ status' = IF call.panic THEN "panicked" ELSE "cat"
          /\ recs' = IF call.panic THEN recs ELSE Append(recs, call)
          /\ last' = call
    /\ UNCHANGED <<dict, order, first, arg, hdr, disk, saved, curcat>>

\* read_storefile returns: the category file is at its end
EndCategory ==
    /\ status = "cat"
    /\ status' = "day"
    /\ last' = [op |-> "end of file"]
    /\ UNCHANGED <<dict, order, first, dicts, file, buf, arg, hdr, recs, disk, saved, curcat>>

\* process_day returns Ok: no category file is left, the DayFile is dropped
EndDay ==
    /\ status = "day"
    /\ status' = "main"
    /\ last' = [op |-> "end of day"]
    /\ UNCHANGED <<dict, order, first, dicts, file, buf, arg, hdr, recs, disk, saved, curcat>>

\* A plausible slip in main_inner: dicts.save(..) is called inside the loop
\* over the year directories.
SaveDicts_InLoop ==
    /\ status = "main"
    /\ ~disk.exists
    /\ disk' = Dicts_save(dicts)
    /\ saved' = dicts
    /\ last' = [op |-> "save"]
    /\ UNCHANGED <<dict, order, first, dicts, file, buf, status, arg, hdr, recs, curcat>>

\* main_inner after the loop over the year directories: dicts.save(&outdir)
SaveDicts ==
    /\ status = "main"
    /\ disk' = Dicts_save(dicts)
    /\ saved' = dicts
    /\ status' = "done"
    /\ last' = [op |-> "save"]
    /\ UNCHANGED <<dict, order, first, dicts, file, buf, arg, hdr, recs, curcat>>

\* An I/O call fails: `?` returns the error from main_inner (or
\* expect("adding succeeds") panics); nothing is saved
IoError ==
    /\ status \in {"main", "day", "cat"}
    /\ status' = "failed"
    /\ last' = [op |-> "io error"]
    /\ UNCHANGED <<dict, order, first, dicts, file, buf, arg, hdr, recs, disk, saved, curcat>>

NextRun ==
    \/ BeginDay
    \/ \E cat \in RunCategories : BeginCategory(cat)
    \/ \E l \in RunLines : Line(l)
    \/ EndCategory
    \/ EndDay
    \/ SaveDicts
    \/ IoError

SpecRun == InitRun /\ [][NextRun]_vars

(***************************************************************************)
(* SpecWord: the header word of add_entry for lengths and indices up to    *)
(* 30 bits. An input names the branch add_entry takes, the length of the   *)
(* value and the index value_index returns; every input drawn is that of   *)
(* some value and some value dictionary.                                   *)
(***************************************************************************)

\* Indices Dict::index can return for the value dictionary: below its max_index
IndexSamples ==
    {i \in {0, 1, 2^29 - 1, 2^29, 2^29 + 1, 2^30 - 2, 2^30 - 1} :
        i < Dicts_default.vals.max_index}

\* Value lengths that fit in 30 bits
LengthSamples == {0, 1, 3, 2^29 - 1, 2^29, 2^30 - 1}

\* indexed: a value starting with ' has a length >= 1; encoded: any number of
\* alphabet bytes; literal: at least the one byte outside the alphabet.
WordInputs ==
         [mode : {"indexed"}, length : {1}, index : IndexSamples, expiring : BOOLEAN]
    \cup [mode : {"encoded"}, length : LengthSamples, index : {0}, expiring : BOOLEAN]
    \cup [mode : {"literal"}, length : LengthSamples \ {0}, index : {0}, expiring : BOOLEAN]

InitWord ==
    /\ arg \in [1..2 -> WordInputs]
    /\ hdr = <<>>
    /\ disk = NoDisk
    /\ saved = NoDisk
    /\ curcat = 0
    /\ last = NoCall
    /\ dicts = Dicts_default
    /\ file = <<>>
    /\ buf = <<>>
    /\ status = "running"
    /\ recs = <<>>
    /\ dict = Dict_default
    /\ order = <<>>
    /\ first = <<>>

\* The header word of the next record and its four bytes in the file
EncodeWord ==
    /\ arg # <<>>
    /\ \E in \in {Head(arg)} :
       \E w \in {FirstField(in.mode, in.length, in.index, in.expiring)} :
          hdr' = Append(hdr, [in |-> in, firstfield |-> w, bytes |-> LE_write_u32(w)])
    /\ arg' = Tail(arg)
    /\ UNCHANGED <<dict, order, first, last, dicts, file, buf, status, recs, disk, saved, curcat>>

NextWord == EncodeWord

SpecWord == InitWord /\ [][NextWord]_vars

(***************************************************************************)
(* Claims about one dictionary (SpecDict)                                  *)
(***************************************************************************)

\* C1: with max_index = N and an empty start, the k-th distinct string passed to
\* index gets index k-1 for k <= N (and is stored at that position), and every
\* distinct string from the (N+1)-th on fails with overflow (None).
C1_BoundAndOrder ==
    \A k \in 1..Len(order) :
        IF k <= dict.max_index
        THEN /\ first[order[k]] = Some(k - 1)
             /\ Dict_value(dict, k - 1) = order[k]
        ELSE first[order[k]] = None

\* C1 witness: a dictionary with N >= 2 that has handed out 0..N-1 and has just
\* refused the (N+1)-th distinct string.
C1_Witness ==
    /\ dict.max_index >= 2
    /\ Len(order) = dict.max_index + 1
    /\ last.op = "index"
    /\ last.val = order[Len(order)]
    /\ last.res = None

IsPrefix(s, t) ==
    /\ Len(s) <= Len(t)
    /\ \A i \in 1..Len(s) : s[i] = t[i]

\* C2: every string that was once assigned index i still has index i, and
\* string_at(i) still returns it; the array before the last call is a prefix of
\* the array after it (append only: no reordering, compaction or deletion).
C2_IndexStable ==
    /\ \A s \in DOMAIN first :
         first[s].some =>
            /\ HashGet(dict.indices, s) = first[s]
            /\ first[s].v < Len(dict.strs)
            /\ Dict_value(dict, first[s].v) = s
    /\ last.op = "index" => IsPrefix(last.before.strs, dict.strs)

\* C2 witness: three strings hold indices 0, 1, 2 after a repeated call and a
\* failed call have both happened.
C2_Witness ==
    /\ Len(dict.strs) = 3
    /\ \E s \in DOMAIN first : ~first[s].some
    /\ last.op = "index"
    /\ last.res = Some(0)
    /\ last.before = dict

\* C3: every call with a string returns what the first call with that string
\* returned; a call grows the dictionary by at most one entry, and by none (it
\* leaves the dictionary as it was) when the string is already present.
C3_Idempotent ==
    last.op = "index" =>
        /\ last.res = first[last.val]
        /\ Len(dict.strs) - Len(last.before.strs) \in {0, 1}
        /\ (\E i \in 1..Len(last.before.strs) : last.before.strs[i] = last.val)
              => dict = last.before

\* C3 witness: a repeated call on a full dictionary with a string it holds.
C3_Witness ==
    /\ last.op = "index"
    /\ Len(last.before.strs) = last.before.max_index
    /\ last.before.max_index >= 2
    /\ last.res = Some(1)
    /\ dict = last.before

(***************************************************************************)
(* Claims about mode selection and the nibble codec                       *)
(***************************************************************************)

\* The 16 symbols 0123456789.,-[]e
Alphabet == (48..57) \cup {46, 44, 45, 91, 93, 101}

\* The mode the priority rule gives a value: dictionary-indexed when it starts
\* with ' or ( or is exactly "-", else nibble-packed when every byte is in the
\* alphabet, else literal.
ModeOf(value) ==
    IF (Len(value) >= 1 /\ value[1] \in {39, 40}) \/ value = <<45>> THEN "indexed"
    ELSE IF \A i \in 1..Len(value) : value[i] \in Alphabet THEN "encoded"
    ELSE "literal"

\* The mode a written record shows: its flag bits and its payload.
ShownModes(call) ==
    {m \in {"indexed", "encoded", "literal"} :
        CASE m = "indexed" -> 29 \in call.firstfield /\ call.wvalue = <<>>
          [] m = "encoded" -> 30 \in call.firstfield /\ 29 \notin call.firstfield
          [] OTHER -> call.firstfield \cap {29, 30} = {} /\ call.wvalue = call.value}

\* C7: every record written took the one mode the priority rule gives its value
\* bytes, whatever the dictionaries hold and whatever was written before; its
\* header flags and payload show that mode and no other.
C7_ModeIsFunctionOfValue ==
    \A i \in 1..Len(recs) :
        /\ recs[i].mode = ModeOf(recs[i].value)
        /\ ShownModes(recs[i]) = {ModeOf(recs[i].value)}

\* C7 witness: the same value written twice, the dictionary having grown in
\* between, and a second record that a single byte outside the alphabet made literal.
C7_Witness ==
    /\ Len(recs) = 2
    /\ recs[1].value = <<39, 102>>
    /\ recs[2].value = <<49, 50, 102>>
    /\ recs[2].mode = "literal"
    /\ recs[2].before.dicts # Dicts_default

\* C8 as stated: an empty value is written in literal mode, with neither ENCODED
\* nor INDEXED set.
C8_EmptyIsLiteral ==
    \A i \in 1..Len(recs) :
        recs[i].value = <<>> =>
            /\ recs[i].firstfield \cap {29, 30} = {}
            /\ recs[i].wvalue = <<>>

\* C8 as amended: an empty value is written nibble-packed: the header word has
\* length 0 with ENCODED set and INDEXED clear (EXPIRING as requested), no
\* payload byte follows, and the dictionaries are left alone.
C8_EmptyIsEncoded ==
    \A i \in 1..Len(recs) :
        recs[i].value = <<>> =>
            /\ recs[i].mode = "encoded"
            /\ recs[i].firstfield = (IF recs[i].expiring THEN {30, 31} ELSE {30})
            /\ recs[i].wvalue = <<>>
            /\ Len(recs[i].msg) = 16
            /\ SubSeq(recs[i].msg, 1, 4) = <<0, 0, 0, IF recs[i].expiring THEN 192 ELSE 64>>

\* C8 witness: an empty value written as the second record, after a packed one
\* left bytes in the scratch buffer.
C8_Witness ==
    /\ Len(recs) = 2
    /\ recs[2].value = <<>>
    /\ recs[2].before.buf # <<>>
    /\ ~recs[2].expiring
    /\ Len(file) = Len(recs[2].before.file) + 16

\* C9: for every value made only of alphabet symbols enc succeeds, and decoding
\* what it returned with the value's length gives the value back, whatever the
\* scratch buffer held before.
C9_NibbleRoundTrip ==
    /\ last.op = "enc" =>
          (last.some <=> \A i \in 1..Len(last.value) : last.value[i] \in Alphabet)
    /\ last.op = "enc" /\ last.some => Len(last.out) = (Len(last.value) + 1) \div 2
    /\ last.op = "dec" => last.out = last.value

\* C9 witness: a value of odd length 3 decoded after an encode that found the
\* scratch buffer non-empty.
C9_Witness ==
    /\ last.op = "dec"
    /\ last.value = <<57, 46, 101>>
    /\ last.buf0 # <<>>
    /\ buf = last.value

(***************************************************************************)
(* Claims about the bounds of the two dictionaries and the header word     *)
(***************************************************************************)

\* C4 as stated: the key dictionary accepts 65536 distinct keys, so key_index
\* fails with overflow only when 65536 keys are held.
C4_Accepts65536Keys ==
    last.op = "key_index" /\ last.panic => last.count >= 65536

\* C4 as amended: the key dictionary has bound 65535 (u16::MAX). key_index
\* fails with overflow exactly when the key is new and 65535 keys are held; a
\* new key below that gets the next index, at most 65534, and is stored there;
\* the dictionary never holds more than 65535 keys.
C4_Accepts65535Keys ==
    /\ Len(dicts.keys.strs) <= 65535
    /\ last.op = "key_index" =>
          /\ last.panic <=> (~last.held /\ last.count = 65535)
          /\ ~last.panic /\ ~last.held =>
                /\ last.res = last.count
                /\ last.res <= 65534
                /\ Len(dicts.keys.strs) = last.count + 1
                /\ Dicts_key(dicts, last.res) = last.key

\* C4 witness: the 65535th distinct key has index 65534 and the 65536th has
\* just failed with overflow.
C4_Witness ==
    /\ status = "panicked"
    /\ last.op = "key_index"
    /\ last.count = 65535
    /\ HashGet(dicts.keys.indices, Dicts_key(dicts, 65534)) = Some(65534)

\* C5: two dictionary-indexed records with distinct value indices (indices the
\* value dictionary can assign) have distinct header words.
C5_IndexLossless ==
    \A i, j \in 1..Len(hdr) :
        /\ hdr[i].in.mode = "indexed"
        /\ hdr[j].in.mode = "indexed"
        /\ hdr[i].in.index # hdr[j].in.index
        => hdr[i].firstfield # hdr[j].firstfield

\* C6: no header word has both ENCODED (bit 30) and INDEXED (bit 29) set.
C6_OneModeFlag ==
    \A i \in 1..Len(hdr) : ~({29, 30} \subseteq hdr[i].firstfield)

\* C10: the header word of a literal record with expiring = false is exactly the
\* length L: its four bytes are those of L, least significant first, and bits
\* 29, 30 and 31 are clear.
C10_LiteralHeaderExact ==
    \A i \in 1..Len(hdr) :
        hdr[i].in.mode = "literal" /\ ~hdr[i].in.expiring =>
            /\ hdr[i].firstfield \cap {29, 30, 31} = {}
            /\ hdr[i].bytes = <<hdr[i].in.length % 256,
                                (hdr[i].in.length \div 256) % 256,
                                (hdr[i].in.length \div 65536) % 256,
                                hdr[i].in.length \div 16777216>>

\* The strings of a dictionary that hold the line terminator
HasNewline(s) == \E i \in 1..Len(s) : s[i] = 10

NewlineFree(ds) ==
    /\ \A i \in 1..Len(ds.keys.strs) : ~HasNewline(ds.keys.strs[i])
    /\ \A i \in 1..Len(ds.vals.strs) : ~HasNewline(ds.vals.strs[i])

\* The loaded dictionary has the entries of the saved one at the same indices:
\* index_of(x) is the old index and string_at of it is x, for every x of old
SameEntries(old, new) ==
    /\ new.strs = old.strs
    /\ new.indices = old.indices
    /\ \A x \in DOMAIN old.indices :
          /\ Dict_index(new, x).res = Some(old.indices[x])
          /\ Dict_value(new, Dict_index(new, x).res.v) = x

C15_DashIsValueZero ==
    /\ Dicts_default.vals.strs = << <<45>> >>
    /\ Dicts_default.vals.indices = (<<45>> :> 0)
    /\ Dicts_value(dicts, 0) = <<45>>
    /\ (last.op = "value_index" /\ ~last.panic) =>
          /\ last.key = <<45>> => (last.res = 0 /\ Len(dicts.vals.strs) = last.count)
          /\ last.res = 0 => last.key = <<45>>
    /\ disk.exists => (Len(disk.values) >= 2 /\ SubSeq(disk.values, 1, 2) = <<45, 10>>)

C15_Witness ==
    /\ last.op = "save"
    /\ Len(dicts.vals.strs) = 3
    /\ disk.values[1] = 45

\* The record add_entry writes from the state before `call` when only
\* expiring is flipped
Flipped(call) ==
    DayFile_add_entry([file |-> call.before.file, buf |-> call.before.buf],
                      call.entry.cat, call.entry.sub, call.value, call.entry.ts,
                      ~call.expiring, call.before.dicts, 0)

\* C12: the record add_entry writes with expiring = true and the one it writes
\* with expiring = false, from the same state, differ in bit 31 of the header
\* word and in nothing else: same mode flags, low 30 bits, other header fields,
\* payload, and the same dictionaries after the call.
C12_ExpiringOnlyBit31 ==
    last.op = "add_entry" =>
        \E o \in {Flipped(last)} :
            /\ o.panic = last.panic
            /\ ~last.panic =>
                  /\ 31 \in last.firstfield <=> last.expiring
                  /\ 31 \in o.firstfield <=> ~last.expiring
                  /\ o.firstfield \ {31} = last.firstfield \ {31}
                  /\ SubSeq(o.msg, 5, 16) = SubSeq(last.msg, 5, 16)
                  /\ SubSeq(o.msg, 1, 3) = SubSeq(last.msg, 1, 3)
                  /\ o.wvalue = last.wvalue
                  /\ o.mode = last.mode
            /\ o.dicts = dicts
            /\ o.buf = buf

C12_Witness ==
    /\ Len(recs) = 2
    /\ last = recs[2]
    /\ last.expiring
    /\ last.mode = "indexed"
    /\ last.before.dicts # dicts
    /\ 31 \in last.firstfield
    /\ 31 \notin Flipped(last).firstfield

\* The file after call i of recs
FileAfter(i) == IF i = Len(recs) THEN file ELSE recs[i + 1].before.file

\* The concatenation of the records of recs[1..n]: 16 header bytes and the
\* payload of each
RECURSIVE Records(_)
Records(n) == IF n = 0 THEN <<>> ELSE Records(n - 1) \o recs[n].msg \o recs[n].wvalue

\* C13: every add_entry that returned Ok appended one record, 16 header bytes
\* and its payload, behind the bytes already written and left those unchanged;
\* the file is the concatenation of the records in call order.
C13_AppendOnly ==
    /\ \A i \in 1..Len(recs) :
          /\ Len(recs[i].msg) = 16
          /\ FileAfter(i) = recs[i].before.file \o recs[i].msg \o recs[i].wvalue
    /\ status = "running" => file = Records(Len(recs))

\* Position of a byte in the table "0123456789.,-[]e"
NibbleTable == <<48, 49, 50, 51, 52, 53, 54, 55, 56, 57, 46, 44, 45, 91, 93, 101>>

TablePos(b) == CHOOSE p \in 0..15 : NibbleTable[p + 1] = b

\* C18: the record add_entry writes for a non-empty value of alphabet symbols
\* that does not trigger the dictionary has ENCODED set, the length L in the
\* low 30 bits and ceil(L/2) payload bytes; payload byte k holds the table position of value
\* byte 2k in its low nibble and of value byte 2k+1 in its high nibble (0 for
\* the missing byte of an odd length). Bytes are counted from 0.
C18_NibbleLayout ==
    (last.op = "add_entry" /\ ~last.panic) =>
        \E value \in {last.value} : \E payload \in {last.wvalue} : \E L \in {Len(last.value)} :
            (/\ L > 0
             /\ \A j \in 1..L : value[j] \in Alphabet
             /\ ~(value[1] \in {39, 40} \/ value = <<45>>)) =>
                /\ 30 \in last.firstfield
                /\ last.firstfield \cap (0..29) = U32(L)
                /\ Len(payload) = (L + 1) \div 2
                /\ \A k \in 0..(Len(payload) - 1) :
                      payload[k + 1] =
                          TablePos(value[2 * k + 1])
                          + 16 * (IF 2 * k + 2 <= L THEN TablePos(value[2 * k + 2]) ELSE 0)

C18_Witness ==
    /\ Len(recs) = 2
    /\ last = recs[2]
    /\ recs[1].value = <<91, 49, 44, 50, 93>>
    /\ recs[1].wvalue = <<29, 43, 14>>
    /\ recs[2].value = NibbleTable
    /\ recs[2].wvalue = <<16, 50, 84, 118, 152, 186, 220, 254>>

\* C20: the array and the hash map of a dictionary agree: no string twice in
\* the array, one hash entry per array element, lookup(array[i]) = i for every
\* i below the entry count, and the entry count is at most max_index.
C20_ArrayAndHashAgree ==
    /\ \A i, j \in 1..Len(dict.strs) : dict.strs[i] = dict.strs[j] => i = j
    /\ DOMAIN dict.indices = {dict.strs[i] : i \in 1..Len(dict.strs)}
    /\ Cardinality(DOMAIN dict.indices) = Len(dict.strs)
    /\ \A i \in 1..Len(dict.strs) : dict.indices[dict.strs[i]] = i - 1
    /\ Len(dict.strs) <= dict.max_index

C20_Witness ==
    /\ Len(dict.strs) = 3
    /\ dict.max_index = 3
    /\ last.op = "index"
    /\ last.res = None
    /\ Cardinality(DOMAIN dict.indices) = 3

\* The value makes add_entry ask the value dictionary, which is full and does
\* not hold it
FullAndNew(call) ==
    /\ (Len(call.value) >= 1 /\ call.value[1] \in {39, 40}) \/ call.value = <<45>>
    /\ call.value \notin DOMAIN call.before.dicts.vals.indices
    /\ Len(call.before.dicts.vals.strs) >= call.before.dicts.vals.max_index

\* The index a dictionary-indexed record carries below its flag bits
IndexIn(call) ==
    CHOOSE n \in 0..Len(dicts.vals.strs) : U32(n) = call.firstfield \ {29, 31}

\* C19: add_entry for a new dictionary-triggering value on a full value
\* dictionary fails hard (there is no fallback); the failing call appends no
\* byte to the day file and leaves the dictionaries unchanged, and no written
\* record carries an index that is not its value's.
C19_FullFailsClean ==
    /\ last.op = "add_entry" =>
          /\ last.panic <=> FullAndNew(last)
          /\ last.panic =>
                /\ status = "panicked"
                /\ file = last.before.file
                /\ dicts = last.before.dicts
                /\ file = Records(Len(recs))
    /\ \A i \in 1..Len(recs) :
          recs[i].mode = "indexed" =>
              /\ IndexIn(recs[i]) < Len(dicts.vals.strs)
              /\ Dicts_value(dicts, IndexIn(recs[i])) = recs[i].value

C19_Witness ==
    /\ last.op = "add_entry"
    /\ last.panic
    /\ FullAndNew(last)
    /\ Len(recs) = 1
    /\ recs[1].mode = "indexed"
    /\ recs[1].value = <<39, 102>>
    /\ last.before.dicts.vals.max_index = 2
    /\ Len(file) = 16

\* C14 as stated: in every Dicts state, fresh or loaded, a key_index call
\* either fails with overflow, leaving the dictionary as it was, or returns
\* an index at which key() gives back the string asked for.
C14_NeverAliases ==
    last.op = "key_index" =>
        IF last.panic THEN Len(dicts.keys.strs) = last.count
        ELSE Dicts_key(dicts, last.res) = last.key

\* The lines of a saved dictionary file, in order
LinesOf(bytes) == split_lines(bytes, <<>>, <<>>)

\* Line number i (from 0) of a saved file is the string s
LineIs(bytes, i, s) == i < Len(LinesOf(bytes)) /\ LinesOf(bytes)[i + 1] = s

\* Every index written into a record of the run names its string in the saved
\* files
RecordsResolve ==
    \A i \in 1..Len(recs) :
        /\ LineIs(disk.keys, recs[i].entry.cat, recs[i].catname)
        /\ LineIs(disk.keys, recs[i].entry.sub, recs[i].subkey)
        /\ recs[i].mode = "indexed" => LineIs(disk.values, IndexIn(recs[i]), recs[i].value)

\* The dictionaries are saved once, when the run is over, and not changed
\* after that
SavedLast ==
    /\ disk.exists <=> status = "done"
    /\ disk.exists => (saved = dicts /\ disk = Dicts_save(dicts))

C17_OnlyIndexedValuesEnter ==
    /\ \A i \in 1..Len(dicts.vals.strs) :
          \/ dicts.vals.strs[i] = <<45>>
          \/ (Len(dicts.vals.strs[i]) >= 1 /\ dicts.vals.strs[i][1] \in {39, 40})
    /\ (last.op = "add_entry" /\ ~last.panic /\ last.mode # "indexed") =>
          dicts.vals = last.before.dicts.vals

====
